---- MODULE Spec2Model ----
(***************************************************************************)
(* Model of sync.py, the ALN GM Scanner token synchronisation script:      *)
(* run_command, sync_submodule, load_tokens, verify_token_structure,       *)
(* deploy_to_github_pages and main.                                        *)
(*                                                                         *)
(* The external collaborators (the shell, git, the file system) are the    *)
(* environment: every subprocess finishes with a nondeterministically      *)
(* chosen outcome, and the files main() looks at are chosen in Init.       *)
(***************************************************************************)
EXTENDS Integers, Sequences, FiniteSets, TLC

VARIABLES
    argv,              \* set of command line flags given to the process
    fs,                \* file system: data/.git marker and the two token files
    cwd,               \* the process's current working directory
    pc,                \* position of the single thread of control
    original_dir,      \* sync_submodule: local saved by os.getcwd()
    pending,           \* exception in flight while the finally block runs
    status,            \* local `status` of sync_submodule
    has_local_changes, \* local of sync_submodule
    push_result,       \* local of sync_submodule
    log,               \* every command handed to subprocess.run, in order
    steps,             \* the steps of main() that have started, in order
    tokens,            \* main: first value returned by load_tokens()
    source,            \* main: second value returned by load_tokens()
    opened,            \* paths opened for reading by load_tokens()
    written,           \* paths opened for writing by load_tokens()
    verify_arg,        \* mapping handed to verify_token_structure()
    missing_fields,    \* verify_token_structure: collected identifiers
    report,            \* verify_token_structure: the line it prints
    removed,           \* identifier of the field removed before verification
    deploy_result,     \* value returned by deploy_to_github_pages()
    exit_code,         \* value returned by main()
    entry_dir,         \* cwd at entry of sync_submodule()
    deploy_status,     \* local `status` of deploy_to_github_pages
    deploy_pushed,     \* deploy_to_github_pages: what run_command gave for the push
    rc_call,           \* arguments of the latest direct run_command() call
    rc_out             \* what that call returned and printed

vars == <<argv, fs, cwd, pc, original_dir, pending, status, has_local_changes,
          push_result, log, steps, tokens, source, opened, written, verify_arg,
          missing_fields, report, removed, deploy_result, exit_code, entry_dir,
          deploy_status, deploy_pushed, rc_call, rc_out>>

(***************************************************************************)
(* Bounds of the model.                                                    *)
(***************************************************************************)
MaxTextLen  == 2   \* lexemes per output stream in direct run_command() calls
PipeTextLen == 1   \* lexemes per output stream of a subprocess inside main()
MaxTokens   == 6   \* entries of a token mapping handed to the verifier

(***************************************************************************)
(* Optional values: Python's None is the empty tuple, a value v is <<v>>.  *)
(***************************************************************************)
None == <<>>
Some(v) == <<v>>

Min(a, b) == IF a <= b THEN a ELSE b

(***************************************************************************)
(* Text written by a subprocess.  A text is a sequence of lexemes: a run   *)
(* of whitespace, the phrase "nothing to commit", or any other word.       *)
(***************************************************************************)
WS == " "
NTC == "nothing to commit"
WORD == "x"
Lexemes == {WS, NTC, WORD}

Texts(n) == UNION {[1..k -> Lexemes] : k \in 0..n}

\* str.strip(): drop leading and trailing whitespace
RECURSIVE lstrip(_)
lstrip(t) == IF t # <<>> /\ Head(t) = WS THEN lstrip(Tail(t)) ELSE t

RECURSIVE rstrip(_)
rstrip(t) ==
    IF t # <<>> /\ t[Len(t)] = WS THEN rstrip(SubSeq(t, 1, Len(t) - 1)) ELSE t

strip(t) == rstrip(lstrip(t))

\* the Python test  "nothing to commit" in t
contains_ntc(t) == \E i \in 1..Len(t) : t[i] = NTC

\* bool(t) of a Python string
truthy_text(t) == t # <<>>

(***************************************************************************)
(* What subprocess.run() can do: raise, or complete with an exit status    *)
(* and two captured streams.                                               *)
(***************************************************************************)
Raising == [raises |-> TRUE, returncode |-> 0, stdout |-> <<>>, stderr |-> <<>>]

Outcomes(n) ==
    {Raising} \cup
    [raises : {FALSE}, returncode : {0, 1}, stdout : Texts(n), stderr : Texts(n)]

(***************************************************************************)
(* run_command(cmd, description, capture): returns the value handed back   *)
(* to the caller and the marked lines printed after the description.       *)
(***************************************************************************)
run_command_stderr(o, capture) ==
    IF o.raises
    THEN [raised |-> FALSE, ret |-> IF capture THEN <<>> ELSE FALSE,
          printed |-> <<[mark |-> "error", text |-> <<>>]>>]
    ELSE IF o.returncode # 0 /\ ~contains_ntc(o.stderr)
    THEN [raised |-> FALSE,
          ret |-> IF capture THEN o.stdout ELSE FALSE,
          printed |-> <<[mark |-> "warning",
                         text |-> IF truthy_text(strip(o.stderr))
                                  THEN strip(o.stderr) ELSE strip(o.stdout)]>>]
    ELSE [raised |-> FALSE,
          ret |-> IF capture THEN o.stdout ELSE TRUE,
          printed |-> <<>>]

run_command(o, capture) ==
    IF o.raises
    THEN [raised |-> FALSE, ret |-> IF capture THEN <<>> ELSE FALSE,
          printed |-> <<[mark |-> "error", text |-> <<>>]>>]
    ELSE IF o.returncode # 0 /\ ~contains_ntc(o.stdout)
    THEN [raised |-> FALSE,
          ret |-> IF capture THEN o.stdout ELSE FALSE,
          printed |-> <<[mark |-> "warning",
                         text |-> IF truthy_text(strip(o.stderr))
                                  THEN strip(o.stderr) ELSE strip(o.stdout)]>>]
    ELSE [raised |-> FALSE,
          ret |-> IF capture THEN o.stdout ELSE TRUE,
          printed |-> <<>>]

(***************************************************************************)
(* The file system the script looks at.  Relative paths resolve against    *)
(* the working directory, so a file of the project is found only while the *)
(* process stands in the project directory fs.root.                        *)
(***************************************************************************)
required_fields == <<"SF_RFID", "SF_ValueRating", "SF_MemoryType", "SF_Group">>
Required == {required_fields[k] : k \in 1..Len(required_fields)}

\* the field sets an entry of a generated mapping may carry
EntryShapes == {Required, Required \ {"SF_Group"}, {}}

TokenId(i) == "tok" \o ToString(i)

\* a token mapping in insertion order: a sequence of (token_id, token_data)
Mappings(n) ==
    UNION {{[i \in 1..k |-> [id |-> TokenId(i), data |-> f[i]]] :
                f \in [1..k -> EntryShapes]} : k \in 0..n}

Malformed == [parses |-> FALSE, value |-> <<>>]
WellFormed(m) == [parses |-> TRUE, value |-> m]

FileContents ==
    {Malformed, WellFormed(<<>>),
     WellFormed(<<[id |-> "tok1", data |-> Required]>>),
     WellFormed(<<[id |-> "tok1", data |-> Required \ {"SF_Group"}]>>)}

paths == <<"data/tokens.json", "tokens.json.backup">>
Paths == {paths[k] : k \in 1..Len(paths)}

StartDirs == {"/home/gm/ALNScanner", "/srv/scanner"}

FileSystems(root) ==
    [root : {root}, git_marker : BOOLEAN,
     files : [Paths -> {None} \cup {Some(c) : c \in FileContents}]]

\* os.path.exists(path) for a path of the project, seen from directory d
path_exists(f, d, path) == d = f.root /\ f.files[path] # None

\* os.path.exists('data/.git')
marker_exists(f, d) == d = f.root /\ f.git_marker

\* os.chdir(rel) from directory d
chdir(d, rel) == d \o "/" \o rel

\* json.load(f)
json_load(content) ==
    IF content.parses THEN [raised |-> FALSE, value |-> content.value]
    ELSE [raised |-> TRUE, value |-> <<>>]

(***************************************************************************)
(* load_tokens(): the loop over the two candidate paths.                   *)
(***************************************************************************)
RECURSIVE load_from(_, _, _, _)
load_from(f, d, ps, i) ==
    IF i > Len(ps)
    THEN [raised |-> FALSE, tokens |-> None, path |-> None,
          opened |-> <<>>, written |-> <<>>]
    ELSE IF path_exists(f, d, ps[i])
    THEN LET j == json_load(f.files[ps[i]][1])
         IN  [raised |-> j.raised,
              tokens |-> IF j.raised THEN None ELSE Some(j.value),
              path |-> IF j.raised THEN None ELSE Some(ps[i]),
              opened |-> <<ps[i]>>, written |-> <<>>]
    ELSE load_from(f, d, ps, i + 1)

load_tokens_backup_first(f, d) == load_from(f, d, <<paths[2], paths[1]>>, 1)

load_tokens(f, d) == load_from(f, d, paths, 1)

\* the Python test  not tokens  in main()
not_tokens(t) == t = None \/ Len(t[1]) = 0

(***************************************************************************)
(* verify_token_structure(tokens)                                          *)
(***************************************************************************)
SampleSize == 5
ReportLimit == 3

identifier(token_id, field) == token_id \o "." \o field

\* inner loop: the required fields of one entry, from field k on
RECURSIVE missing_of(_, _)
missing_of(entry, k) ==
    IF k > Len(required_fields) THEN <<>>
    ELSE (IF required_fields[k] \notin entry.data
          THEN <<identifier(entry.id, required_fields[k])>> ELSE <<>>)
         \o missing_of(entry, k + 1)

\* outer loop over list(tokens.items())[:5], from entry i on
RECURSIVE collect_missing(_, _)
collect_missing(items, i) ==
    IF i > Len(items) THEN <<>>
    ELSE missing_of(items[i], 1) \o collect_missing(items, i + 1)

verify_report(missing) ==
    IF missing # <<>>
    THEN [mark |-> "warning",
          ids |-> SubSeq(missing, 1, Min(ReportLimit, Len(missing)))]
    ELSE [mark |-> "ok", ids |-> <<>>]

verify_all_entries(m) ==
    LET missing == collect_missing(m, 1)
    IN  [tokens |-> m, missing_fields |-> missing, report |-> verify_report(missing)]

verify_token_structure(m) ==
    LET missing == collect_missing(SubSeq(m, 1, Min(SampleSize, Len(m))), 1)
    IN  [tokens |-> m, missing_fields |-> missing, report |-> verify_report(missing)]

(***************************************************************************)
(* Commands.  The timestamp of a generated commit message is left as the   *)
(* placeholder <timestamp>.                                                *)
(***************************************************************************)
CmdSubmoduleInit   == "git submodule init"
CmdSubmoduleUpdate == "git submodule update"
CmdStatus          == "git status --porcelain"
CmdAddTokens       == "git add tokens.json"
CmdCommitTokens    == "git commit -m 'Update tokens from GM Scanner - <timestamp>'"
CmdPushShared      == "git push origin HEAD:main"
CmdPull            == "git pull origin main --rebase"
CmdAddData         == "git add data"
CmdCommitReference == "git commit -m 'Update submodule reference'"
CmdAddAll          == "git add -A"
CmdCommitDeploy    == "git commit -m 'Sync tokens for GM Scanner - <timestamp>'"
CmdPushPages       == "git push origin main"
CmdRemoteUrl       == "git remote get-url origin"

\* the record of one subprocess.run(cmd, shell=True, ...) call
issue(cmd, by) == Append(log, [cmd |-> cmd, cwd |-> cwd, by |-> by])

deploy == "--deploy" \in argv
local_only == "--local" \in argv

Idle ==
    /\ original_dir = None /\ pending = None /\ status = None
    /\ has_local_changes = None /\ push_result = None
    /\ log = <<>> /\ steps = <<>>
    /\ tokens = None /\ source = None /\ opened = <<>> /\ written = <<>>
    /\ verify_arg = None /\ missing_fields = <<>> /\ report = None
    /\ removed = None /\ deploy_result = None /\ exit_code = None
    /\ entry_dir = None /\ deploy_status = None /\ deploy_pushed = None
    /\ rc_call = None /\ rc_out = None

(***************************************************************************)
(* A run of main().                                                        *)
(***************************************************************************)
Init ==
    /\ argv \in SUBSET {"--deploy", "--local"}
    /\ cwd \in StartDirs
    /\ fs \in FileSystems(cwd)
    /\ pc = "main"
    /\ Idle

\* main(), lines 140-155: banner, flags, step 1 starts
MainStart ==
    /\ pc = "main"
    /\ steps' = Append(steps, "sync")
    /\ pc' = "sync_submodule"
    /\ UNCHANGED <<argv, fs, cwd, original_dir, pending, status, has_local_changes,
                   push_result, log, tokens, source, opened, written, verify_arg,
                   missing_fields, report, removed, deploy_result, exit_code,
                   entry_dir, deploy_status, deploy_pushed, rc_call, rc_out>>

(***************************************************************************)
(* sync_submodule()                                                        *)
(***************************************************************************)
SyncVars == <<argv, fs, steps, tokens, source, opened, written, verify_arg,
              missing_fields, report, removed, deploy_result, exit_code,
              deploy_status, deploy_pushed, rc_call, rc_out>>

SyncEntry_no_marker_test ==
    /\ pc = "sync_submodule"
    /\ entry_dir' = Some(cwd)
    /\ pc' = "sync_chdir" /\ original_dir' = Some(cwd)
    /\ UNCHANGED <<cwd, pending, status, has_local_changes, push_result, log>>
    /\ UNCHANGED SyncVars

\* lines 28 and 35: the marker test, then os.getcwd()
SyncEntry ==
    /\ pc = "sync_submodule"
    /\ entry_dir' = Some(cwd)
    /\ IF ~marker_exists(fs, cwd)
       THEN pc' = "sync_init" /\ UNCHANGED original_dir
       ELSE pc' = "sync_chdir" /\ original_dir' = Some(cwd)
    /\ UNCHANGED <<cwd, pending, status, has_local_changes, push_result, log>>
    /\ UNCHANGED SyncVars

\* a command of sync_submodule whose result is not looked at
SyncRun(at, cmd, next) ==
    /\ pc = at
    /\ \E o \in Outcomes(PipeTextLen) :
          LET r == run_command(o, FALSE)
          IN  /\ log' = issue(cmd, "sync_submodule")
              /\ pc' = next
    /\ UNCHANGED <<cwd, original_dir, pending, status, has_local_changes,
                   push_result, entry_dir>>
    /\ UNCHANGED SyncVars

SyncInit == SyncRun("sync_init", CmdSubmoduleInit, "sync_update")

\* line 31, then the return of line 32
SyncUpdate == SyncRun("sync_update", CmdSubmoduleUpdate, "load_tokens")

\* line 38: os.chdir('data') succeeds or raises OSError
SyncChdir ==
    /\ pc = "sync_chdir"
    /\ \/ cwd' = chdir(cwd, "data") /\ pc' = "sync_status" /\ UNCHANGED pending
       \/ pending' = Some("OSError") /\ pc' = "sync_finally" /\ UNCHANGED cwd
    /\ UNCHANGED <<original_dir, status, has_local_changes, push_result, log,
                   entry_dir>>
    /\ UNCHANGED SyncVars

\* lines 41-44
SyncStatus ==
    /\ pc = "sync_status"
    /\ \E o \in Outcomes(PipeTextLen) :
          LET r == run_command(o, TRUE)
          IN  /\ log' = issue(CmdStatus, "sync_submodule")
              /\ status' = Some(r.ret)
              /\ has_local_changes' = Some(truthy_text(strip(r.ret)))
              /\ pc' = IF truthy_text(strip(r.ret)) THEN "sync_add" ELSE "sync_pull"
    /\ UNCHANGED <<cwd, original_dir, pending, push_result, entry_dir>>
    /\ UNCHANGED SyncVars

SyncAdd == SyncRun("sync_add", CmdAddTokens, "sync_commit")

SyncCommit == SyncRun("sync_commit", CmdCommitTokens, "sync_push")

\* lines 52-56
SyncPush_abort_on_failure ==
    /\ pc = "sync_push"
    /\ \E o \in Outcomes(PipeTextLen) :
          LET r == run_command(o, FALSE)
          IN  /\ log' = issue(CmdPushShared, "sync_submodule")
              /\ push_result' = Some(r.ret)
              /\ pc' = IF r.ret THEN "sync_pull" ELSE "sync_finally"
    /\ UNCHANGED <<cwd, original_dir, pending, status, has_local_changes, entry_dir>>
    /\ UNCHANGED SyncVars

SyncPush ==
    /\ pc = "sync_push"
    /\ \E o \in Outcomes(PipeTextLen) :
          LET r == run_command(o, FALSE)
          IN  /\ log' = issue(CmdPushShared, "sync_submodule")
              /\ push_result' = Some(r.ret)
              /\ pc' = "sync_pull"
    /\ UNCHANGED <<cwd, original_dir, pending, status, has_local_changes, entry_dir>>
    /\ UNCHANGED SyncVars

\* line 59, the last statement of the try block
SyncPull == SyncRun("sync_pull", CmdPull, "sync_finally")

TryPositions == {"sync_status", "sync_add", "sync_commit", "sync_push", "sync_pull"}

\* an exception raised between two statements of the try block (lines 37-59)
SyncInterrupt ==
    /\ pc \in TryPositions
    /\ pending' = Some("KeyboardInterrupt")
    /\ pc' = "sync_finally"
    /\ UNCHANGED <<cwd, original_dir, status, has_local_changes, push_result, log,
                   entry_dir>>
    /\ UNCHANGED SyncVars

SyncFinally_no_restore ==
    /\ pc = "sync_finally"
    /\ pc' = IF pending # None THEN "raised" ELSE "sync_parent_add"
    /\ UNCHANGED <<cwd, original_dir, pending, status, has_local_changes, push_result,
                   log, entry_dir>>
    /\ UNCHANGED SyncVars

\* lines 61-62: the finally block, then the exception (if any) goes on
SyncFinally ==
    /\ pc = "sync_finally"
    /\ cwd' = original_dir[1]
    /\ pc' = IF pending # None THEN "raised" ELSE "sync_parent_add"
    /\ UNCHANGED <<original_dir, pending, status, has_local_changes, push_result,
                   log, entry_dir>>
    /\ UNCHANGED SyncVars

SyncParentAdd == SyncRun("sync_parent_add", CmdAddData, "sync_parent_commit")

SyncParentCommit == SyncRun("sync_parent_commit", CmdCommitReference, "load_tokens")

(***************************************************************************)
(* main(), step 2: load_tokens() and the test of its result                *)
(***************************************************************************)
TailVars == <<argv, cwd, original_dir, pending, status, has_local_changes,
              push_result, entry_dir, removed, rc_call, rc_out>>

\* line 159; a parse failure of json.load leaves main() as an exception
LoadTokens ==
    /\ pc = "load_tokens"
    /\ steps' = Append(steps, "load")
    /\ LET r == load_tokens(fs, cwd)
       IN  /\ opened' = r.opened
           /\ written' = r.written
           /\ IF r.raised
              THEN pc' = "raised" /\ UNCHANGED <<tokens, source>>
              ELSE pc' = "main_check" /\ tokens' = r.tokens /\ source' = r.path
    /\ UNCHANGED <<fs, log, verify_arg, missing_fields, report, deploy_result,
                   exit_code, deploy_status, deploy_pushed>>
    /\ UNCHANGED TailVars

\* lines 160-162
MainCheck ==
    /\ pc = "main_check"
    /\ IF not_tokens(tokens)
       THEN pc' = "done" /\ exit_code' = Some(1)
       ELSE pc' = "verify" /\ UNCHANGED exit_code
    /\ UNCHANGED <<fs, log, steps, tokens, source, opened, written, verify_arg,
                   missing_fields, report, deploy_result, deploy_status,
                   deploy_pushed>>
    /\ UNCHANGED TailVars

\* line 165
Verify ==
    /\ pc = "verify"
    /\ steps' = Append(steps, "verify")
    /\ LET r == verify_token_structure(tokens[1])
       IN  /\ verify_arg' = Some(tokens[1])
           /\ tokens' = Some(r.tokens)
           /\ missing_fields' = r.missing_fields
           /\ report' = Some(r.report)
    /\ pc' = "deploy_check"
    /\ UNCHANGED <<fs, log, source, opened, written, deploy_result, exit_code,
                   deploy_status, deploy_pushed>>
    /\ UNCHANGED TailVars

(***************************************************************************)
(* main(), step 3, and deploy_to_github_pages()                            *)
(***************************************************************************)
DeployVars == <<fs, tokens, source, opened, written, verify_arg, missing_fields,
                report>>

\* lines 174-179
MainDeployCheck ==
    /\ pc = "deploy_check"
    /\ IF deploy /\ ~local_only
       THEN pc' = "deploy_status" /\ steps' = Append(steps, "deploy")
       ELSE pc' = "banner" /\ UNCHANGED steps
    /\ UNCHANGED <<log, deploy_result, exit_code, deploy_status, deploy_pushed>>
    /\ UNCHANGED DeployVars
    /\ UNCHANGED TailVars

DeployStatus_always_stage ==
    /\ pc = "deploy_status"
    /\ \E o \in Outcomes(PipeTextLen) :
          LET r == run_command(o, TRUE)
          IN  /\ log' = issue(CmdStatus, "deploy_to_github_pages")
              /\ deploy_status' = Some(r.ret)
              /\ pc' = "deploy_add"
              /\ UNCHANGED deploy_result
    /\ UNCHANGED <<steps, exit_code, deploy_pushed>>
    /\ UNCHANGED DeployVars
    /\ UNCHANGED TailVars

\* lines 105-108
DeployStatus ==
    /\ pc = "deploy_status"
    /\ \E o \in Outcomes(PipeTextLen) :
          LET r == run_command(o, TRUE)
          IN  /\ log' = issue(CmdStatus, "deploy_to_github_pages")
              /\ deploy_status' = Some(r.ret)
              /\ IF ~truthy_text(strip(r.ret))
                 THEN pc' = "banner" /\ deploy_result' = Some(TRUE)
                 ELSE pc' = "deploy_add" /\ UNCHANGED deploy_result
    /\ UNCHANGED <<steps, exit_code, deploy_pushed>>
    /\ UNCHANGED DeployVars
    /\ UNCHANGED TailVars

\* a command of deploy_to_github_pages whose result is not looked at
DeployRun(at, cmd, next) ==
    /\ pc = at
    /\ \E o \in Outcomes(PipeTextLen) :
          LET r == run_command(o, FALSE)
          IN  /\ log' = issue(cmd, "deploy_to_github_pages")
              /\ pc' = next
    /\ UNCHANGED <<steps, deploy_result, exit_code, deploy_status, deploy_pushed>>
    /\ UNCHANGED DeployVars
    /\ UNCHANGED TailVars

DeployAdd == DeployRun("deploy_add", CmdAddAll, "deploy_commit")

DeployCommit == DeployRun("deploy_commit", CmdCommitDeploy, "deploy_push")

\* lines 119-121 and 133-136
DeployPush ==
    /\ pc = "deploy_push"
    /\ \E o \in Outcomes(PipeTextLen) :
          LET r == run_command(o, FALSE)
          IN  /\ log' = issue(CmdPushPages, "deploy_to_github_pages")
              /\ deploy_pushed' = Some(r.ret)
              /\ IF r.ret
                 THEN pc' = "deploy_remote" /\ UNCHANGED deploy_result
                 ELSE pc' = "banner" /\ deploy_result' = Some(FALSE)
    /\ UNCHANGED <<steps, exit_code, deploy_status>>
    /\ UNCHANGED DeployVars
    /\ UNCHANGED TailVars

\* lines 124-132: the remote URL query, the printed site URL, return True
DeployRemote ==
    /\ pc = "deploy_remote"
    /\ \E o \in Outcomes(PipeTextLen) :
          LET r == run_command(o, TRUE)
          IN  /\ log' = issue(CmdRemoteUrl, "deploy_to_github_pages")
              /\ deploy_result' = Some(TRUE)
              /\ pc' = "banner"
    /\ UNCHANGED <<steps, exit_code, deploy_status, deploy_pushed>>
    /\ UNCHANGED DeployVars
    /\ UNCHANGED TailVars

\* lines 181-185
Banner ==
    /\ pc = "banner"
    /\ steps' = Append(steps, "banner")
    /\ exit_code' = Some(0)
    /\ pc' = "done"
    /\ UNCHANGED <<log, deploy_result, deploy_status, deploy_pushed>>
    /\ UNCHANGED DeployVars
    /\ UNCHANGED TailVars

Next ==
    \/ MainStart
    \/ SyncEntry \/ SyncInit \/ SyncUpdate \/ SyncChdir \/ SyncStatus \/ SyncAdd
    \/ SyncCommit \/ SyncPush \/ SyncPull \/ SyncInterrupt \/ SyncFinally
    \/ SyncParentAdd \/ SyncParentCommit
    \/ LoadTokens \/ MainCheck \/ Verify
    \/ MainDeployCheck \/ DeployStatus \/ DeployAdd \/ DeployCommit \/ DeployPush
    \/ DeployRemote \/ Banner

Spec == Init /\ [][Next]_vars

(***************************************************************************)
(* Direct calls of run_command(), one subprocess outcome after another.    *)
(***************************************************************************)
InitRun ==
    /\ argv = {}
    /\ cwd = "/srv/scanner"
    /\ fs = [root |-> cwd, git_marker |-> FALSE, files |-> [p \in Paths |-> None]]
    /\ pc = "run_command"
    /\ Idle

RunCommand ==
    /\ pc = "run_command"
    /\ \E o \in Outcomes(MaxTextLen), capture \in BOOLEAN :
          /\ rc_call' = Some([outcome |-> o, capture |-> capture])
          /\ rc_out' = Some(run_command(o, capture))
    /\ pc' = "returned"
    /\ UNCHANGED <<argv, fs, cwd, original_dir, pending, status,
                   has_local_changes, push_result, log, steps, tokens, source,
                   opened, written, verify_arg, missing_fields, report, removed,
                   deploy_result, exit_code, entry_dir, deploy_status,
                   deploy_pushed>>

NextRun == RunCommand

SpecRun == InitRun /\ [][NextRun]_vars

(***************************************************************************)
(* verify_token_structure() on generated mappings, optionally after one    *)
(* required field has been removed from one entry.                         *)
(***************************************************************************)
InitVerify ==
    /\ argv = {}
    /\ cwd = "/srv/scanner"
    /\ fs = [root |-> cwd, git_marker |-> FALSE, files |-> [p \in Paths |-> None]]
    /\ pc = "verify_setup"
    /\ original_dir = None /\ pending = None /\ status = None
    /\ has_local_changes = None /\ push_result = None
    /\ log = <<>> /\ steps = <<>>
    /\ tokens \in {Some(m) : m \in Mappings(MaxTokens)}
    /\ source = None /\ opened = <<>> /\ written = <<>>
    /\ verify_arg = None /\ missing_fields = <<>> /\ report = None
    /\ removed = None /\ deploy_result = None /\ exit_code = None
    /\ entry_dir = None /\ deploy_status = None /\ deploy_pushed = None
    /\ rc_call = None /\ rc_out = None

VerifySetupVars == <<argv, fs, cwd, original_dir, pending, status, has_local_changes,
                     push_result, log, steps, source, opened, written, verify_arg,
                     missing_fields, report, deploy_result, exit_code, entry_dir,
                     deploy_status, deploy_pushed, rc_call, rc_out>>

\* del tokens[id][field] on entry i, before the mapping is verified
RemoveField ==
    /\ pc = "verify_setup"
    /\ \E i \in 1..Len(tokens[1]) : \E field \in tokens[1][i].data :
          /\ tokens' = Some([tokens[1] EXCEPT ![i].data = @ \ {field}])
          /\ removed' = Some([index |-> i, id |-> tokens[1][i].id, field |-> field])
    /\ pc' = "verify"
    /\ UNCHANGED VerifySetupVars

KeepFields ==
    /\ pc = "verify_setup"
    /\ pc' = "verify"
    /\ UNCHANGED <<tokens, removed>>
    /\ UNCHANGED VerifySetupVars

NextVerify == RemoveField \/ KeepFields \/ Verify

SpecVerify == InitVerify /\ [][NextVerify]_vars

(***************************************************************************)
(* Properties                                                              *)
(***************************************************************************)
PushCommands == {CmdPushShared, CmdPushPages}

\* the commands issued by one function, in order
RECURSIVE cmds_of(_, _)
cmds_of(l, by) ==
    IF l = <<>> THEN <<>>
    ELSE (IF Head(l).by = by THEN <<Head(l).cmd>> ELSE <<>>) \o cmds_of(Tail(l), by)

SyncCmds == cmds_of(log, "sync_submodule")
DeployCmds == cmds_of(log, "deploy_to_github_pages")

IsPrefix(a, b) == Len(a) <= Len(b) /\ SubSeq(b, 1, Len(a)) = a

InSync == {"sync_submodule", "sync_init", "sync_update", "sync_chdir", "sync_status",
           "sync_add", "sync_commit", "sync_push", "sync_pull", "sync_finally",
           "sync_parent_add", "sync_parent_commit"}

\* sync_submodule() has been entered and left, by return or by exception
SyncLeft == entry_dir # None /\ pc \notin InSync

\* C1: in a run of main() given --local no git push command is ever issued
C1_NoPushWhenLocal ==
    local_only => \A i \in 1..Len(log) : log[i].cmd \notin PushCommands

NoTokenFile == \A p \in Paths : fs.files[p] = None

\* C2: main() returns 1 exactly when neither token file exists and returns 0 in
\* every other run that completes, a file holding an empty mapping included
C2_ExitOneIffNoTokenFile ==
    pc = "done" =>
        /\ exit_code = Some(1) <=> NoTokenFile
        /\ exit_code = Some(0) <=> ~NoTokenFile

NestedCmds == {CmdStatus, CmdAddTokens, CmdCommitTokens, CmdPushShared, CmdPull}
ParentCmds == {CmdAddData, CmdCommitReference}

\* C3: whenever sync_submodule() has been left (early return, normal return or
\* exception) the working directory is the one it was entered with; its nested
\* repository commands run in the nested directory and its parent reference
\* add/commit run in the restored original directory
C3_CwdRestored ==
    /\ SyncLeft => cwd = entry_dir[1]
    /\ \A i \in 1..Len(log) :
          log[i].by = "sync_submodule" =>
              /\ log[i].cmd \in NestedCmds => log[i].cwd = chdir(entry_dir[1], "data")
              /\ log[i].cmd \in ParentCmds => log[i].cwd = entry_dir[1]

C3_Witness ==
    /\ pc = "raised" /\ pending = Some("KeyboardInterrupt")
    /\ SyncCmds = <<CmdStatus, CmdAddTokens, CmdCommitTokens, CmdPushShared>>
    /\ cwd = entry_dir[1]

\* C4: once deploy_to_github_pages() has returned: after a blank status output it
\* has issued the status query only and returned True; after a non-blank one it
\* has issued status, add -A, commit, push in that order (then only the remote
\* URL query) and returned what run_command reported for the push
C4_DeployEmptyStatus ==
    deploy_result # None =>
        IF ~truthy_text(strip(deploy_status[1]))
        THEN DeployCmds = <<CmdStatus>> /\ deploy_result = Some(TRUE)
        ELSE /\ IsPrefix(<<CmdStatus, CmdAddAll, CmdCommitDeploy, CmdPushPages>>,
                         DeployCmds)
             /\ IsPrefix(DeployCmds, <<CmdStatus, CmdAddAll, CmdCommitDeploy,
                                       CmdPushPages, CmdRemoteUrl>>)
             /\ deploy_result = deploy_pushed

C4_Witness ==
    /\ deploy_result = Some(TRUE) /\ deploy_status = Some(<<WS>>)
    /\ DeployCmds = <<CmdStatus>>

StepOrder == <<"sync", "load", "verify", "deploy", "banner">>

RECURSIVE IsSubsequence(_, _)
IsSubsequence(a, b) ==
    IF a = <<>> THEN TRUE
    ELSE IF b = <<>> THEN FALSE
    ELSE IF Head(a) = Head(b) THEN IsSubsequence(Tail(a), Tail(b))
    ELSE IsSubsequence(a, Tail(b))

Started(step) == \E i \in 1..Len(steps) : steps[i] = step

\* load_tokens() has returned a parsed token file to main()
TokensLoaded == Started("load") /\ pc # "load_tokens" /\ pc # "raised" /\ tokens # None

\* C5: the steps of main() start in the order sync, load, verify, deploy, banner;
\* the deployer is invoked iff --deploy is given, --local is not and the tokens
\* were loaded; when they could not be loaded there is no verification, no
\* deployment and no git command after the load attempt
C5_StepOrder ==
    /\ IsSubsequence(steps, StepOrder)
    /\ pc = "done" =>
          /\ Started("deploy") <=> (deploy /\ ~local_only /\ TokensLoaded)
          /\ ~TokensLoaded =>
                /\ ~Started("verify") /\ ~Started("deploy")
                /\ DeployCmds = <<>>

\* C6: without the data/.git marker sync_submodule() issues submodule init, then
\* submodule update, and nothing else
C6_FirstTimeSetup ==
    (entry_dir # None /\ ~fs.git_marker) =>
        /\ IsPrefix(SyncCmds, <<CmdSubmoduleInit, CmdSubmoduleUpdate>>)
        /\ pc \notin InSync => SyncCmds = <<CmdSubmoduleInit, CmdSubmoduleUpdate>>

C6_Witness ==
    /\ ~fs.git_marker /\ pc = "load_tokens"
    /\ log = <<[cmd |-> CmdSubmoduleInit, cwd |-> cwd, by |-> "sync_submodule"],
               [cmd |-> CmdSubmoduleUpdate, cwd |-> cwd, by |-> "sync_submodule"]>>

LoadReturned == Started("load") /\ pc \notin {"load_tokens", "raised"}

\* C7: load_tokens() returns content and path of the first existing candidate in
\* the order data/tokens.json, tokens.json.backup, (None, None) when neither
\* exists, opens no file but the one it returns and writes none
C7_FirstExistingPath ==
    /\ written = <<>>
    /\ LoadReturned =>
          /\ fs.files[paths[1]] # None =>
                /\ source = Some(paths[1])
                /\ fs.files[paths[1]][1] = WellFormed(tokens[1])
                /\ opened = <<paths[1]>>
          /\ (fs.files[paths[1]] = None /\ fs.files[paths[2]] # None) =>
                /\ source = Some(paths[2])
                /\ fs.files[paths[2]][1] = WellFormed(tokens[1])
                /\ opened = <<paths[2]>>
          /\ NoTokenFile => tokens = None /\ source = None /\ opened = <<>>

C7_Witness ==
    /\ pc = "main_check"
    /\ fs.files[paths[1]] # None /\ fs.files[paths[2]] # None
    /\ fs.files[paths[1]] # fs.files[paths[2]]
    /\ source = Some(paths[1])

(***************************************************************************)
(* Properties of verify_token_structure()                                  *)
(***************************************************************************)
Verified == verify_arg # None

InSeq(x, q) == \E k \in 1..Len(q) : q[k] = x

\* every one of the first five entries carries the four required fields
SampleComplete(m) ==
    \A i \in 1..Len(m) : i <= SampleSize => Required \subseteq m[i].data

\* identifiers that belong to the sixth and later entries
LateIdentifiers(m) ==
    {identifier(m[i].id, f) : i \in {j \in 1..Len(m) : j > SampleSize}, f \in Required}

RemovedId == identifier(removed[1].id, removed[1].field)

VerifyCommon ==
    /\ (report[1].mark = "ok" /\ missing_fields = <<>>) <=> SampleComplete(verify_arg[1])
    /\ \A x \in LateIdentifiers(verify_arg[1]) :
          ~InSeq(x, missing_fields) /\ ~InSeq(x, report[1].ids)
    /\ tokens = verify_arg

\* C8 as claimed: no missing field is reported iff the first five entries are
\* complete; a field removed from one of the first five entries shows up in the
\* printed report; the sixth and later entries are never reported; the mapping
\* is left unchanged
C8_RemovedFieldPrinted ==
    Verified =>
        /\ VerifyCommon
        /\ (removed # None /\ removed[1].index <= SampleSize) =>
              InSeq(RemovedId, report[1].ids)

\* C8 as amended: the removed field shows up in the collected missing-fields
\* list, and in the printed report when it is among the first three collected
\* identifiers, the only ones that are printed
C8_RemovedFieldCollected ==
    Verified =>
        /\ VerifyCommon
        /\ report[1].ids = SubSeq(missing_fields, 1, Min(ReportLimit, Len(missing_fields)))
        /\ (removed # None /\ removed[1].index <= SampleSize) =>
              /\ InSeq(RemovedId, missing_fields)
              /\ (\E k \in 1..ReportLimit :
                     k <= Len(missing_fields) /\ missing_fields[k] = RemovedId)
                   => InSeq(RemovedId, report[1].ids)

C8_Witness ==
    /\ Verified /\ removed # None /\ removed[1].index = SampleSize
    /\ Len(verify_arg[1]) > SampleSize
    /\ ~(Required \subseteq verify_arg[1][SampleSize + 1].data)
    /\ InSeq(RemovedId, missing_fields)
    /\ ~InSeq(RemovedId, report[1].ids)

(***************************************************************************)
(* Properties of run_command()                                             *)
(***************************************************************************)
Called == rc_call # None
Outcome == rc_call[1].outcome
Warned == \E k \in 1..Len(rc_out[1].printed) : rc_out[1].printed[k].mark = "warning"

\* C9 as claimed: run_command() never raises; without capture it returns True on
\* exit status 0, True (and prints no warning) on a non-zero exit whose error
\* message, on standard error or on standard output, contains "nothing to
\* commit", and False on every other non-zero exit and on an exception
C9_NothingToCommitAnyStream ==
    (Called /\ ~rc_call[1].capture) =>
        /\ ~rc_out[1].raised
        /\ rc_out[1].ret =
              (/\ ~Outcome.raises
               /\ \/ Outcome.returncode = 0
                  \/ contains_ntc(Outcome.stderr)
                  \/ contains_ntc(Outcome.stdout))
        /\ rc_out[1].ret => ~Warned

\* C9 as amended: the non-zero exit is non-fatal when the command's standard
\* output contains "nothing to commit"; the same text on standard error alone
\* is a failure like any other
C9_NothingToCommitOnStdout ==
    (Called /\ ~rc_call[1].capture) =>
        /\ ~rc_out[1].raised
        /\ rc_out[1].ret =
              (/\ ~Outcome.raises
               /\ \/ Outcome.returncode = 0
                  \/ contains_ntc(Outcome.stdout))
        /\ rc_out[1].ret => ~Warned

C9_Witness ==
    /\ Called /\ ~rc_call[1].capture
    /\ ~Outcome.raises /\ Outcome.returncode # 0
    /\ contains_ntc(Outcome.stdout) /\ ~contains_ntc(Outcome.stderr)
    /\ truthy_text(strip(Outcome.stderr))
    /\ rc_out[1].ret = TRUE /\ ~Warned

(***************************************************************************)
(* The command sequence of sync_submodule()                                *)
(***************************************************************************)
NoRepeat(q) == \A i, j \in 1..Len(q) : q[i] = q[j] => i = j

\* sync_submodule() found the marker and returned normally
SyncReturned == entry_dir # None /\ fs.git_marker /\ pc \notin InSync /\ pending = None

\* C10: a run of sync_submodule() that finds the marker issues, up to its
\* return, status, then add/commit/push exactly when the status output was
\* non-blank, then the rebase pull once whatever came before, then add data and
\* the reference commit; no command is issued twice
C10_PullOnce ==
    /\ NoRepeat(SyncCmds)
    /\ SyncReturned =>
          /\ has_local_changes = Some(truthy_text(strip(status[1])))
          /\ SyncCmds =
                <<CmdStatus>>
                \o (IF has_local_changes[1]
                    THEN <<CmdAddTokens, CmdCommitTokens, CmdPushShared>> ELSE <<>>)
                \o <<CmdPull, CmdAddData, CmdCommitReference>>

C10_Witness ==
    /\ SyncReturned /\ push_result = Some(FALSE)
    /\ InSeq(CmdPull, SyncCmds) /\ InSeq(CmdCommitReference, SyncCmds)

====
